---- MODULE Spec2Model ----
(***************************************************************************)
(* Maze engine of webmaze (src/src/Maze.js): the grid, generate() with its *)
(* carving loop and findSpawnPoints(), and solve() (breadth-first search). *)
(* Cells are pairs <<x, y>>; grid[x][y] of the source is grid[<<x, y>>].    *)
(***************************************************************************)
EXTENDS Integers, Sequences, FiniteSets, TLC

\* ------------------------------------------------------------------ bounds
\* Largest grid built by new Maze(width, height) in the model.
MaxWidth == 6
MaxHeight == 5
\* Hand-built grids (a caller fills grid and end itself) have at most this
\* many cells.
MaxHandCells == 9
\* Grids on which two solve() invocations run side by side have at most this
\* many cells.
MaxConcCells == 6
\* A caller that compares solve() results keeps at most this many of them.
MaxCalls == 1
\* The game is played on square mazes of side 3 to MaxGameSide.
MaxGameSide == 4
\* Math.random() is modelled as a draw u / RandDen with u in 0 .. RandDen-1.
RandDen == 16

\* --------------------------------------------------------- program constants
\* "1 = Wall, 0 = Path"
Wall == 1
Path == 0
\* Player.moveSpeed, units per second.
moveSpeed == 10
\* The arrival threshold 0.05 of Player.update, in hundredths of a unit.
ArriveDist == 5
\* The cap 0.1 s Game.loop puts on a frame's deltaTime, in milliseconds.
MaxDelta == 100

VARIABLES
    width,      \* this.width
    height,     \* this.height
    grid,       \* this.grid, a function from the cells that hold a value
    start,      \* this.start
    end,        \* this.end
    stack,      \* the local stack of generate()
    startIdx,   \* local of findSpawnPoints()
    endIdx,     \* local of findSpawnPoints()
    pc,         \* where the maze's life cycle stands
    logged,     \* console.error("Maze generation failed ...") was called
    origin,     \* the arguments of the last solve() call, <<>> before any
    result,     \* what the last solve() call returned
    touched,    \* the cells <<x, y>> whose grid[x][y] the last step read or wrote
    runs,       \* solve() invocations in progress side by side, each with its locals
    calls,      \* the [origin, result] of earlier solve() calls a caller has kept
    player,     \* Game.player: gridPos, worldPos, targetPos, facing, isMoving
    perspective,\* renderer.perspective
    showHint,   \* Game.showHint
    lastHintPos,\* Game.lastHintPos, <<>> while undefined
    markers     \* the path last passed to renderer.updatePathMarkers

\* The state of the game played on the maze.
gameVars == <<player, perspective, showHint, lastHintPos, markers>>

\* What the maze's own steps leave alone.
others == <<runs, calls, gameVars>>

vars == <<width, height, grid, start, end, stack, startIdx, endIdx, pc,
          logged, origin, result, touched, others>>

\* ------------------------------------------------------------------ helpers
\* World positions are kept in hundredths of a unit.
World(c) == <<100 * c[1], 100 * c[2]>>

\* The fields the Player constructor sets for a player placed on cell s.
NewPlayer(s) ==
    [gridPos |-> s, worldPos |-> World(s), targetPos |-> World(s),
     facing |-> <<0, 1>>, isMoving |-> FALSE]

\* Before Game.init has constructed the player and wired the controls.
NoGame ==
    /\ player = NewPlayer(<<0, 0>>)
    /\ perspective = "overhead"
    /\ showHint = FALSE
    /\ lastHintPos = <<>>
    /\ markers = <<>>

Cells(w, h) == (0 .. w - 1) \X (0 .. h - 1)

InBounds(c) == c[1] >= 0 /\ c[1] < width /\ c[2] >= 0 /\ c[2] < height

\* this.grid[x][y] === 1 and this.grid[x][y] === 0; a cell that holds no
\* value reads as undefined and is neither.
IsWall(g, c) == c \in DOMAIN g /\ g[c] = Wall
IsPath(g, c) == c \in DOMAIN g /\ g[c] = Path

\* this.grid[x][y] = 0. A JavaScript array grows when an index past its end
\* is assigned, so the cell is added when the column grid[x] exists.
SetPath(g, c) == [d \in (DOMAIN g) \cup {c} |-> IF d = c THEN Path ELSE g[d]]

\* grid[x] is an array (assigning grid[x][y] does not throw a TypeError).
HasColumn(x) == x >= 0 /\ x < width

\* Math.floor(Math.random() * (num / den)) for the draw u / RandDen.
RandomFloor(u, num, den) == (u * num) \div (RandDen * den)

Draws == 0 .. RandDen - 1

\* ------------------------------------------------------------- constructor
InitGrid(w, h) == [c \in Cells(w, h) |-> Wall]

Init ==
    /\ width \in 1 .. MaxWidth
    /\ height \in 1 .. MaxHeight
    /\ grid = InitGrid(width, height)
    /\ start = <<0, 0>>
    /\ end = <<width - 1, height - 1>>
    /\ stack = <<>>
    /\ startIdx = 0
    /\ endIdx = 0
    /\ pc = "new"
    /\ logged = FALSE
    /\ origin = <<>>
    /\ result = <<>>
    /\ touched = {}
    /\ runs = <<>>
    /\ calls = <<>>
    /\ NoGame

\* --------------------------------------------------------------- generate()
\* The initial cell of generate().
InitialCell(u1, u2) ==
    << 1 + 2 * RandomFloor(u1, width - 1, 2),
       1 + 2 * RandomFloor(u2, height - 1, 2) >>

\* generate() up to the first test of the while loop.
GenerateBegin(u1, u2) ==
    /\ pc = "new"
    /\ LET current == InitialCell(u1, u2) IN
         IF HasColumn(current[1])
           THEN /\ grid' = SetPath(grid, current)
                /\ stack' = <<current>>
                /\ pc' = "loop"
           ELSE /\ pc' = "threw"
                /\ UNCHANGED <<grid, stack>>
    /\ touched' = {InitialCell(u1, u2)}
    /\ UNCHANGED <<width, height, start, end, startIdx, endIdx, logged,
                   origin, result, others>>

\* Mutant: neighbours one cell away, not two (no lattice).
DirectionsUnit == << <<0, -1>>, <<1, 0>>, <<0, 1>>, <<-1, 0>> >>

Directions == << <<0, -2>>, <<2, 0>>, <<0, 2>>, <<-2, 0>> >>

\* Mutant: the "still a wall" test is left out.
NeighborOkNoVisited(g, n) ==
    /\ n[1] > 0 /\ n[1] < width - 1 /\ n[2] > 0 /\ n[2] < height - 1
    /\ n \in DOMAIN g

\* Mutant: the margin test has no upper bounds.
InMarginNoUpper(n) == n[1] > 0 /\ n[2] > 0

\* "Check bounds (leave 1 cell margin for border walls)".
InMargin(n) ==
    n[1] > 0 /\ n[1] < width - 1 /\ n[2] > 0 /\ n[2] < height - 1

NeighborOk(g, n) ==
    /\ InMargin(n)
    /\ IsWall(g, n)

getUnvisitedNeighbors(g, cell) ==
    LET cand == [i \in 1 .. 4 |->
                   <<cell[1] + Directions[i][1], cell[2] + Directions[i][2]>>]
    IN SelectSeq(cand, LAMBDA n : NeighborOk(g, n))

\* The cells getUnvisitedNeighbors(cell) reads: grid[nx][ny] is read for the
\* candidates that pass the margin test.
NeighborReads(cell) ==
    {n \in {<<cell[1] + Directions[i][1], cell[2] + Directions[i][2]>> :
               i \in 1 .. 4} : InMargin(n)}

\* Mutant: the wall between current and next is left standing.
CarveNoWall(g, current, next) == SetPath(g, next)

\* Mutant: only the wall is opened; the chosen neighbour is left Wall.
CarveWallOnly(g, current, next) ==
    SetPath(g, <<(current[1] + next[1]) \div 2, (current[2] + next[2]) \div 2>>)

\* Mutant: the cell the step leaves is closed again behind it.
CarveCloseCurrent(g, current, next) ==
    LET wall == <<(current[1] + next[1]) \div 2, (current[2] + next[2]) \div 2>>
        h == SetPath(SetPath(g, wall), next)
    IN [h EXCEPT ![current] = Wall]

\* The cells one iteration opens for the chosen neighbour.
Carve(g, current, next) ==
    LET wall == <<(current[1] + next[1]) \div 2, (current[2] + next[2]) \div 2>>
    IN SetPath(SetPath(g, wall), next)

\* The cells Carve writes.
CarveWrites(current, next) ==
    {<<(current[1] + next[1]) \div 2, (current[2] + next[2]) \div 2>>, next}

\* One iteration of the while loop of generate().
CarveStep(u) ==
    /\ pc = "loop"
    /\ stack # <<>>
    /\ LET current == stack[Len(stack)]
           neighbors == getUnvisitedNeighbors(grid, current)
       IN IF Len(neighbors) > 0
            THEN LET next == neighbors[1 + RandomFloor(u, Len(neighbors), 1)]
                 IN /\ grid' = Carve(grid, current, next)
                    /\ stack' = Append(stack, next)
                    /\ touched' = NeighborReads(current)
                                     \cup CarveWrites(current, next)
            ELSE /\ stack' = SubSeq(stack, 1, Len(stack) - 1)
                 /\ grid' = grid
                 /\ touched' = NeighborReads(current)
    /\ UNCHANGED <<width, height, start, end, startIdx, endIdx, pc, logged,
                   origin, result, others>>

\* ------------------------------------------------------- findSpawnPoints()
\* openCells: the cells with grid[x][y] === 0, x outer and y inner.
RECURSIVE ScanFrom(_, _, _)
ScanFrom(g, x, y) ==
    IF x >= width THEN <<>>
    ELSE IF y >= height THEN ScanFrom(g, x + 1, 0)
    ELSE (IF IsPath(g, <<x, y>>) THEN << <<x, y>> >> ELSE <<>>)
         \o ScanFrom(g, x, y + 1)

OpenCells(g) == ScanFrom(g, 0, 0)

\* The loop of generate() has ended; findSpawnPoints() up to the first test
\* of its while loop, or to its early return.
FindSpawnPoints(u1, u2) ==
    /\ pc = "loop"
    /\ stack = <<>>
    /\ LET openCells == OpenCells(grid) IN
         IF Len(openCells) = 0
           THEN /\ logged' = TRUE
                /\ pc' = "returned"
                /\ UNCHANGED <<start, startIdx, endIdx>>
           ELSE /\ startIdx' = RandomFloor(u1, Len(openCells), 1)
                /\ start' = openCells[startIdx' + 1]
                /\ endIdx' = RandomFloor(u2, Len(openCells), 1)
                /\ pc' = "while"
                /\ UNCHANGED logged
    /\ touched' = Cells(width, height)
    /\ UNCHANGED <<width, height, grid, end, stack, origin, result, others>>

\* One iteration of "while (endIdx === startIdx)".
Resample(u) ==
    /\ pc = "while"
    /\ endIdx = startIdx
    /\ endIdx' = RandomFloor(u, Len(OpenCells(grid)), 1)
    /\ touched' = {}
    /\ UNCHANGED <<width, height, grid, start, end, stack, startIdx, pc,
                   logged, origin, result, others>>

\* Mutant: end is taken from the first draw, without "while (endIdx === startIdx)".
SetEndNoLoop ==
    /\ pc = "while"
    /\ end' = OpenCells(grid)[endIdx + 1]
    /\ pc' = "returned"
    /\ startIdx' = 0
    /\ endIdx' = 0
    /\ touched' = {}
    /\ UNCHANGED <<width, height, grid, start, stack, logged, origin, result,
                   others>>

\* The while loop ends; this.end is set and generate() returns.  The locals
\* startIdx and endIdx go out of scope.
SetEnd ==
    /\ pc = "while"
    /\ endIdx # startIdx
    /\ end' = OpenCells(grid)[endIdx + 1]
    /\ pc' = "returned"
    /\ startIdx' = 0
    /\ endIdx' = 0
    /\ touched' = {}
    /\ UNCHANGED <<width, height, grid, start, stack, logged, origin, result,
                   others>>

\* ------------------------------------------------------------------ solve()
\* Mutant: the East neighbour is left out.
SolveNeighborsNoEast(c) ==
    << <<c[1], c[2] - 1>>, <<c[1], c[2] + 1>>, <<c[1] - 1, c[2]>> >>

SolveNeighbors(c) ==
    << <<c[1], c[2] - 1>>, <<c[1], c[2] + 1>>,
       <<c[1] - 1, c[2]>>, <<c[1] + 1, c[2]>> >>

SeqRange(s) == {s[i] : i \in 1 .. Len(s)}

\* Mutant: the wall test "grid[n.x][n.y] === 0" is left out.
EnqueuedNoWallCheck(g, c, visited) ==
    SelectSeq(<< <<c[1], c[2] - 1>>, <<c[1], c[2] + 1>>,
                 <<c[1] - 1, c[2]>>, <<c[1] + 1, c[2]>> >>,
              LAMBDA n : InBounds(n) /\ n \notin visited)

\* The neighbours one iteration enqueues.  The four neighbours are distinct,
\* so marking each visited as it is enqueued filters by the visited set as
\* it stood before the iteration.
Enqueued(g, c, visited) ==
    SelectSeq(SolveNeighbors(c),
              LAMBDA n : InBounds(n) /\ IsPath(g, n) /\ n \notin visited)

\* Mutant: queue.pop() for queue.shift(), a stack instead of a queue.
RECURSIVE SolveLoopLifo(_, _, _, _)
SolveLoopLifo(g, e, queue, visited) ==
    IF queue = <<>> THEN <<>>
    ELSE LET node == queue[Len(queue)]
             currentPath == Append(node.path, node.pos)
         IN IF node.pos = e THEN currentPath
            ELSE LET new == SelectSeq(
                                << <<node.pos[1], node.pos[2] - 1>>,
                                   <<node.pos[1], node.pos[2] + 1>>,
                                   <<node.pos[1] - 1, node.pos[2]>>,
                                   <<node.pos[1] + 1, node.pos[2]>> >>,
                                LAMBDA n : InBounds(n) /\ IsPath(g, n)
                                           /\ n \notin visited)
                 IN SolveLoopLifo(g, e,
                        SubSeq(queue, 1, Len(queue) - 1) \o
                          [i \in 1 .. Len(new) |->
                             [pos |-> new[i], path |-> currentPath]],
                        visited \cup SeqRange(new))

\* The while loop of solve(): queue holds records [pos, path]; visited holds
\* the cells whose key `${x},${y}` was added.
RECURSIVE SolveLoop(_, _, _, _)
SolveLoop(g, e, queue, visited) ==
    IF queue = <<>> THEN <<>>
    ELSE LET node == Head(queue)
             currentPath == Append(node.path, node.pos)
         IN IF node.pos = e THEN currentPath
            ELSE LET new == Enqueued(g, node.pos, visited)
                 IN SolveLoop(g, e,
                        Tail(queue) \o
                          [i \in 1 .. Len(new) |->
                             [pos |-> new[i], path |-> currentPath]],
                        visited \cup SeqRange(new))

solve(g, e, o) == SolveLoop(g, e, << [pos |-> o, path |-> <<>>] >>, {o})

\* The cells one iteration of solve() reads: grid[n.x][n.y] is read for the
\* neighbours that pass the bounds test.
Probed(c) == {n \in SeqRange(SolveNeighbors(c)) : InBounds(n)}

\* The cells a whole solve() call reads, iteration by iteration.
RECURSIVE SolveReads(_, _, _, _)
SolveReads(g, e, queue, visited) ==
    IF queue = <<>> THEN {}
    ELSE LET node == Head(queue)
         IN IF node.pos = e THEN {}
            ELSE LET new == Enqueued(g, node.pos, visited)
                 IN Probed(node.pos) \cup
                    SolveReads(g, e,
                        Tail(queue) \o
                          [i \in 1 .. Len(new) |-> [pos |-> new[i], path |-> <<>>]],
                        visited \cup SeqRange(new))

solveReads(g, e, o) == SolveReads(g, e, << [pos |-> o, path |-> <<>>] >>, {o})

\* Origins a caller may pass: every cell and the ring just outside the grid.
Origins == (-1 .. width) \X (-1 .. height)

\* Mutant: visited is not reset between calls; it still holds the cells of
\* the paths returned earlier.
SolveKeepsVisited(o) ==
    /\ pc \in {"returned", "handbuilt"}
    /\ origin = <<>>
    /\ origin' = o
    /\ result' = SolveLoop(grid, end, << [pos |-> o, path |-> <<>>] >>,
                           {o} \cup UNION {SeqRange(calls[i].result) :
                                              i \in DOMAIN calls})
    /\ touched' = solveReads(grid, end, o)
    /\ UNCHANGED <<width, height, grid, start, end, stack, startIdx, endIdx,
                   pc, logged, others>>

\* Mutant: the search marks the cells of the path it returns in the grid.
SolveMarking(o) ==
    /\ pc \in {"returned", "handbuilt"}
    /\ origin = <<>>
    /\ origin' = o
    /\ result' = solve(grid, end, o)
    /\ grid' = [c \in DOMAIN grid |->
                  IF c \in SeqRange(result') THEN Wall ELSE grid[c]]
    /\ touched' = solveReads(grid, end, o)
    /\ UNCHANGED <<width, height, start, end, stack, startIdx, endIdx,
                   pc, logged, others>>

\* A call of solve() by a caller that holds no earlier path.
Solve(o) ==
    /\ pc \in {"returned", "handbuilt"}
    /\ origin = <<>>
    /\ origin' = o
    /\ result' = solve(grid, end, o)
    /\ touched' = solveReads(grid, end, o)
    /\ UNCHANGED <<width, height, grid, start, end, stack, startIdx, endIdx,
                   pc, logged, others>>

\* The caller is done with the returned path (Game.updateHint hands it to
\* the renderer and returns); the next call starts afresh.
Discard ==
    /\ origin # <<>>
    /\ origin' = <<>>
    /\ result' = <<>>
    /\ touched' = {}
    /\ UNCHANGED <<width, height, grid, start, end, stack, startIdx, endIdx,
                   pc, logged, others>>

Next ==
    \/ \E u1, u2 \in Draws : GenerateBegin(u1, u2)
    \/ \E u \in Draws : CarveStep(u)
    \/ \E u1, u2 \in Draws : FindSpawnPoints(u1, u2)
    \/ \E u \in Draws : Resample(u)
    \/ SetEnd
    \/ \E o \in Origins : Solve(o)
    \/ Discard

Spec == Init /\ [][Next]_vars

\* generate() alone, run to completion once invoked: a step is taken whenever
\* one is possible.
NextGen ==
    \/ \E u1, u2 \in Draws : GenerateBegin(u1, u2)
    \/ \E u \in Draws : CarveStep(u)
    \/ \E u1, u2 \in Draws : FindSpawnPoints(u1, u2)
    \/ \E u \in Draws : Resample(u)
    \/ SetEnd

FairSpec == Init /\ [][NextGen]_vars /\ WF_vars(NextGen)

\* ------------------------------------------------------- hand-built grids
\* A caller constructs a Maze and writes grid cells and end itself, as the
\* solver's tests do, then calls solve() from in-bounds origins.
LCorridor == {<<1, 1>>, <<1, 2>>, <<1, 3>>, <<2, 3>>, <<3, 3>>}
LGrid == [c \in Cells(5, 5) |-> IF c \in LCorridor THEN Path ELSE Wall]

HandSizes ==
    {s \in (2 .. MaxHandCells) \X (2 .. MaxHandCells) :
        s[1] * s[2] <= MaxHandCells}

InitHand ==
    /\ \/ /\ \E s \in HandSizes : width = s[1] /\ height = s[2]
          /\ grid \in [Cells(width, height) -> {Wall, Path}]
          /\ end \in Cells(width, height)
       \/ /\ width = 5
          /\ height = 5
          /\ grid = LGrid
          /\ end = <<3, 3>>
    /\ start = <<0, 0>>
    /\ stack = <<>>
    /\ startIdx = 0
    /\ endIdx = 0
    /\ pc = "handbuilt"
    /\ logged = FALSE
    /\ origin = <<>>
    /\ result = <<>>
    /\ touched = {}
    /\ runs = <<>>
    /\ calls = <<>>
    /\ NoGame

NextHand ==
    \/ \E o \in Cells(width, height) : Solve(o)
    \/ Discard

SpecHand == InitHand /\ [][NextHand]_vars

\* ------------------------------------------- solve() invocations side by side
\* The locals of a solve() invocation before its first loop test.
NewRun(o) ==
    [origin |-> o, queue |-> << [pos |-> o, path |-> <<>>] >>, visited |-> {o},
     done |-> FALSE, result |-> <<>>]

\* One test of "while (queue.length > 0)" and the iteration or the return
\* that follows it, on the locals r of one invocation.
SolveStep(g, e, r) ==
    IF r.queue = <<>> THEN [r EXCEPT !.done = TRUE, !.result = <<>>]
    ELSE LET node == Head(r.queue)
             currentPath == Append(node.path, node.pos)
         IN IF node.pos = e
              THEN [r EXCEPT !.done = TRUE, !.result = currentPath]
              ELSE LET new == Enqueued(g, node.pos, r.visited)
                   IN [r EXCEPT
                         !.queue = Tail(r.queue) \o
                                     [i \in 1 .. Len(new) |->
                                        [pos |-> new[i], path |-> currentPath]],
                         !.visited = r.visited \cup SeqRange(new)]

\* The cells that step reads.
StepReads(e, r) ==
    IF r.queue = <<>> \/ Head(r.queue).pos = e THEN {}
    ELSE Probed(Head(r.queue).pos)

mazeVars == <<width, height, grid, start, end, stack, startIdx, endIdx, pc,
              logged, origin, result>>

\* Two callers invoke solve() from different origins.
BeginRuns(o1, o2) ==
    /\ pc = "handbuilt"
    /\ runs = <<>>
    /\ o1 # o2
    /\ runs' = <<NewRun(o1), NewRun(o2)>>
    /\ touched' = {}
    /\ UNCHANGED <<mazeVars, calls, gameVars>>

\* Mutant: the visited set is one set shared by the invocations.
RunStepSharedVisited(i) ==
    /\ i \in DOMAIN runs
    /\ ~runs[i].done
    /\ LET all == UNION {runs[j].visited : j \in DOMAIN runs}
           r == SolveStep(grid, end, [runs[i] EXCEPT !.visited = all])
       IN runs' = [j \in DOMAIN runs |->
                     IF j = i THEN r
                     ELSE [runs[j] EXCEPT !.visited = r.visited]]
    /\ touched' = StepReads(end, runs[i])
    /\ UNCHANGED <<mazeVars, calls, gameVars>>

\* Invocation i takes its next step.
RunStep(i) ==
    /\ i \in DOMAIN runs
    /\ ~runs[i].done
    /\ runs' = [runs EXCEPT ![i] = SolveStep(grid, end, runs[i])]
    /\ touched' = StepReads(end, runs[i])
    /\ UNCHANGED <<mazeVars, calls, gameVars>>

ConcSizes ==
    {s \in (1 .. MaxConcCells) \X (1 .. MaxConcCells) :
        s[1] * s[2] <= MaxConcCells}

InitConc ==
    /\ \E s \in ConcSizes : width = s[1] /\ height = s[2]
    /\ grid \in [Cells(width, height) -> {Wall, Path}]
    /\ end \in Cells(width, height)
    /\ start = <<0, 0>>
    /\ stack = <<>>
    /\ startIdx = 0
    /\ endIdx = 0
    /\ pc = "handbuilt"
    /\ logged = FALSE
    /\ origin = <<>>
    /\ result = <<>>
    /\ touched = {}
    /\ runs = <<>>
    /\ calls = <<>>
    /\ NoGame

NextConc ==
    \/ \E o1, o2 \in Cells(width, height) : BeginRuns(o1, o2)
    \/ \E i \in 1 .. 2 : RunStep(i)

SpecConc == InitConc /\ [][NextConc]_vars

\* ------------------------------------------------- solve() called again
\* A caller keeps the path solve() returned, to compare it with the result
\* of a later call.
Keep ==
    /\ origin # <<>>
    /\ Len(calls) < MaxCalls
    /\ calls' = Append(calls, [origin |-> origin, result |-> result])
    /\ origin' = <<>>
    /\ result' = <<>>
    /\ touched' = {}
    /\ UNCHANGED <<width, height, grid, start, end, stack, startIdx, endIdx,
                   pc, logged, runs, gameVars>>

NextTwice ==
    \/ \E o \in Cells(width, height) : Solve(o)
    \/ Keep

SpecTwice == InitConc /\ [][NextTwice]_vars

\* ------------------------------------------------------------ Player, Game
\* The time between two frames, in milliseconds.
FrameMs == {50, 250}

\* The keys held when a frame runs; w, s, a, d are read together with the
\* arrow of the same direction.
Keys == SUBSET {"ArrowUp", "ArrowDown", "ArrowLeft", "ArrowRight"}

Abs(n) == IF n < 0 THEN -n ELSE n
Sign(n) == IF n < 0 THEN -1 ELSE IF n > 0 THEN 1 ELSE 0
Min(a, b) == IF a < b THEN a ELSE b

\* Mutant: the wall test is dropped.
isValidMoveNoWall(c) == InBounds(c)

isValidMove(c) == InBounds(c) /\ ~IsWall(grid, c)

\* The cell isValidMove(c) reads.
ValidMoveReads(c) == IF InBounds(c) THEN {c} ELSE {}

\* The cell tryMove(dx, dy) proposes.
Proposed(p, dx, dy) ==
    <<p.gridPos[1] + dx, p.gridPos[2] + (IF dx # 0 /\ dy # 0 THEN 0 ELSE dy)>>

tryMove(p, dx, dy, persp) ==
    LET dy2 == IF dx # 0 /\ dy # 0 THEN 0 ELSE dy
        next == Proposed(p, dx, dy)
    IN IF isValidMove(next)
         THEN [p EXCEPT !.gridPos = next,
                        !.targetPos = World(next),
                        !.facing = IF persp # "firstPerson" THEN <<dx, dy2>> ELSE @,
                        !.isMoving = TRUE]
         ELSE p

\* rotate(dir): a quarter turn about the Y axis unless the 200 ms since the
\* last rotation have not passed (ready is what the clock says).
rotate(p, dir, ready) ==
    IF ~ready THEN p
    ELSE [p EXCEPT !.facing = IF dir = 1 THEN <<-@[2], @[1]>> ELSE <<@[2], -@[1]>>]

\* The (dx, dy) update() passes to tryMove, <<0, 0>> when it calls neither.
Wanted(p, keys, persp) ==
    IF persp = "firstPerson"
      THEN IF "ArrowLeft" \in keys \/ "ArrowRight" \in keys THEN <<0, 0>>
           ELSE IF "ArrowUp" \in keys THEN p.facing
           ELSE IF "ArrowDown" \in keys THEN <<-p.facing[1], -p.facing[2]>>
           ELSE <<0, 0>>
      ELSE IF "ArrowUp" \in keys THEN <<0, -1>>
           ELSE IF "ArrowDown" \in keys THEN <<0, 1>>
           ELSE IF "ArrowLeft" \in keys THEN <<-1, 0>>
           ELSE IF "ArrowRight" \in keys THEN <<1, 0>>
           ELSE <<0, 0>>

\* The distance from worldPos to targetPos. The player moves along one axis,
\* so one component of the difference is zero.
Dist(p) ==
    Abs(p.targetPos[1] - p.worldPos[1]) + Abs(p.targetPos[2] - p.worldPos[2])

\* Mutant: the arrival branch does not call checkWinCondition().
ArrivedUnchecked(p) == FALSE

\* update() takes the arrival branch, which ends with checkWinCondition().
Arrived(p) == p.isMoving /\ Dist(p) < ArriveDist

\* Player.update(deltaTime), deltaTime in milliseconds.
update(p, keys, deltaTime, persp, ready) ==
    IF p.isMoving
      THEN IF Dist(p) < ArriveDist
             THEN [p EXCEPT !.worldPos = p.targetPos, !.isMoving = FALSE]
             ELSE LET step == (moveSpeed * deltaTime) \div 10
                  IN [p EXCEPT !.worldPos =
                        <<@[1] + Sign(p.targetPos[1] - @[1]) * step,
                          @[2] + Sign(p.targetPos[2] - @[2]) * step>>]
    ELSE IF persp = "firstPerson" /\ "ArrowLeft" \in keys THEN rotate(p, -1, ready)
    ELSE IF persp = "firstPerson" /\ "ArrowRight" \in keys THEN rotate(p, 1, ready)
    ELSE LET m == Wanted(p, keys, persp)
         IN IF m = <<0, 0>> THEN p ELSE tryMove(p, m[1], m[2], persp)

\* The cells update() reads in the grid.
UpdateReads(p, keys, persp) ==
    LET m == Wanted(p, keys, persp)
    IN IF p.isMoving \/ m = <<0, 0>> THEN {}
       ELSE ValidMoveReads(Proposed(p, m[1], m[2]))

\* Mutant: the loop never refreshes the hint.
HintDueNever(p) == FALSE

\* The test of Game.loop that calls updateHint().
HintDue(p) == showHint /\ ~p.isMoving /\ p.gridPos # lastHintPos

\* Game.init once generate() has returned: the player is constructed on
\* maze.start.
StartGame ==
    /\ pc = "returned"
    /\ origin = <<>>
    /\ pc' = "playing"
    /\ player' = NewPlayer(start)
    /\ touched' = {}
    /\ UNCHANGED <<width, height, grid, start, end, stack, startIdx, endIdx,
                   logged, origin, result, runs, calls, perspective, showHint,
                   lastHintPos, markers>>

\* One iteration of Game.loop: update(), then the hint test and updateHint().
Frame(keys, ms, ready) ==
    /\ pc = "playing"
    /\ LET safeDelta == Min(ms, MaxDelta)
           p == update(player, keys, safeDelta, perspective, ready)
       IN /\ player' = p
          /\ pc' = IF Arrived(player) /\ p.gridPos = end THEN "won" ELSE pc
          /\ IF HintDue(p)
               THEN /\ markers' = solve(grid, end, p.gridPos)
                    /\ lastHintPos' = p.gridPos
                    /\ touched' = UpdateReads(player, keys, perspective)
                                     \cup solveReads(grid, end, p.gridPos)
               ELSE /\ UNCHANGED <<markers, lastHintPos>>
                    /\ touched' = UpdateReads(player, keys, perspective)
    /\ UNCHANGED <<width, height, grid, start, end, stack, startIdx, endIdx,
                   logged, origin, result, runs, calls, perspective, showHint>>

\* The change handler of the hint checkbox.
ToggleHint ==
    /\ pc = "playing"
    /\ showHint' = ~showHint
    /\ IF showHint'
         THEN /\ markers' = solve(grid, end, player.gridPos)
              /\ lastHintPos' = player.gridPos
              /\ touched' = solveReads(grid, end, player.gridPos)
         ELSE /\ markers' = <<>>
              /\ UNCHANGED lastHintPos
              /\ touched' = {}
    /\ UNCHANGED <<mazeVars, runs, calls, player, perspective>>

\* The change handler of the perspective checkbox.
TogglePerspective ==
    /\ pc = "playing"
    /\ perspective' = IF perspective = "overhead" THEN "firstPerson" ELSE "overhead"
    /\ touched' = {}
    /\ UNCHANGED <<mazeVars, runs, calls, player, showHint, lastHintPos, markers>>

\* What the clock can tell rotate(). update() calls rotate() only in first
\* person with a turn key held; it reads deltaTime only while the player
\* moves and the keys only at rest.
Clock(keys) ==
    IF perspective = "firstPerson" /\ keys \cap {"ArrowLeft", "ArrowRight"} # {}
      THEN BOOLEAN ELSE {TRUE}

InitGame ==
    /\ width \in 3 .. MaxGameSide
    /\ height = width
    /\ grid = InitGrid(width, height)
    /\ start = <<0, 0>>
    /\ end = <<width - 1, height - 1>>
    /\ stack = <<>>
    /\ startIdx = 0
    /\ endIdx = 0
    /\ pc = "new"
    /\ logged = FALSE
    /\ origin = <<>>
    /\ result = <<>>
    /\ touched = {}
    /\ runs = <<>>
    /\ calls = <<>>
    /\ NoGame

NextGame ==
    \/ NextGen
    \/ \E o \in Cells(width, height) : Solve(o)
    \/ Discard
    \/ StartGame
    \/ player.isMoving /\ \E ms \in FrameMs : Frame({}, ms, TRUE)
    \/ ~player.isMoving /\ \E keys \in Keys : \E ready \in Clock(keys) :
                                Frame(keys, MaxDelta, ready)
    \/ ToggleHint
    \/ TogglePerspective

SpecGame == InitGame /\ [][NextGame]_vars

\* ------------------------------------------------------- a move in progress
\* Frame times at or below the cap of Game.loop, in milliseconds.
MoveMs == {50, 90, 100}

\* One iteration of Game.loop with any frame time up to the cap.
LoopStep ==
    \/ player.isMoving /\ \E ms \in MoveMs : Frame({}, ms, TRUE)
    \/ ~player.isMoving /\ \E keys \in Keys : Frame(keys, MaxDelta, TRUE)

NextMove ==
    \/ NextGen
    \/ StartGame
    \/ LoopStep

\* Every iteration of Game.loop requests the next animation frame, so the
\* loop keeps running.
SpecMove == InitGame /\ [][NextMove]_vars /\ WF_vars(LoopStep)

\* ---------------------------------------------- graph of the Open cells
\* Defined without reference to solve(): what the claims compare it with.
OpenSet == {c \in Cells(width, height) : IsPath(grid, c)}

Adjacent(a, b) ==
    \/ a[1] = b[1] /\ (a[2] = b[2] + 1 \/ b[2] = a[2] + 1)
    \/ a[2] = b[2] /\ (a[1] = b[1] + 1 \/ b[1] = a[1] + 1)

Grow(S) == S \cup {n \in OpenSet : \E c \in S : Adjacent(c, n)}

\* The cells reachable from the cells of S by steps into Open cells.
RECURSIVE Closure(_)
Closure(S) == LET T == Grow(S) IN IF T = S THEN S ELSE Closure(T)

\* The least number of steps into Open cells from a cell of S to target,
\* counted from d; -1 when there is none.
RECURSIVE StepsFrom(_, _, _)
StepsFrom(S, d, target) ==
    IF target \in S THEN d
    ELSE LET T == Grow(S) IN IF T = S THEN -1 ELSE StepsFrom(T, d + 1, target)

Distance(a, b) == StepsFrom({a}, 0, b)

\* The pairs of 4-adjacent Open cells.
EdgeCount ==
    Cardinality({c \in OpenSet : <<c[1] + 1, c[2]>> \in OpenSet})
    + Cardinality({c \in OpenSet : <<c[1], c[2] + 1>> \in OpenSet})

OnBorder(c) ==
    c[1] = 0 \/ c[1] = width - 1 \/ c[2] = 0 \/ c[2] = height - 1

\* ------------------------------------------------------------------ claims
Last(s) == s[Len(s)]

\* Every consecutive pair of the path differs by one unit along one axis.
UnitSteps(p) == \A i \in 1 .. Len(p) - 1 : Adjacent(p[i], p[i + 1])

\* C1: on every grid of at least 3x3, odd or even, no cell of the outermost
\* ring is ever Open, during and after generate().
C1_BorderEnclosed ==
    (width >= 3 /\ height >= 3) => \A c \in OpenSet : ~OnBorder(c)

\* C2: after generate() has returned on a grid of at least 5x5, every two
\* Open cells are joined through Open cells (adjacency is symmetric, so:
\* every Open cell is reachable from end), and solve() from an Open cell
\* returns a non-empty path from that cell to end.  The grid is examined
\* whenever no solve() result is held.
C2_Connected ==
    (pc = "returned" /\ width >= 5 /\ height >= 5) =>
        /\ origin = <<>> => Closure({end}) = OpenSet
        /\ (origin # <<>> /\ origin \in OpenSet) =>
              /\ result # <<>>
              /\ result[1] = origin
              /\ Last(result) = end

C2_Witness ==
    /\ pc = "returned" /\ width >= 5 /\ height >= 5
    /\ origin # <<>> /\ origin \in OpenSet /\ origin # end
    /\ Len(result) >= 5

\* C3: after generate() has returned, the Open cells with their 4-adjacent
\* pairs form a tree: connected, with one pair fewer than cells.  The grid is
\* examined whenever no solve() result is held: on return from generate()
\* and again after every solve() call.
C3_Tree ==
    (pc = "returned" /\ origin = <<>> /\ OpenSet # {}) =>
        /\ Closure({start}) = OpenSet
        /\ EdgeCount = Cardinality(OpenSet) - 1

C3_Witness ==
    /\ pc = "returned"
    /\ Cardinality(OpenSet) >= 7
    /\ EdgeCount = Cardinality(OpenSet) - 1

\* C4: on any grid, loops included, solve() from an Open origin that end can
\* be reached from returns a path of (least number of steps) + 1 cells; on
\* the L-corridor grid solve(1, 1) returns the corridor.
C4_ShortestPath ==
    /\ (origin # <<>> /\ origin \in OpenSet /\ Distance(origin, end) >= 0) =>
          Len(result) = Distance(origin, end) + 1
    /\ (width = 5 /\ grid = LGrid /\ end = <<3, 3>> /\ origin = <<1, 1>>) =>
          result = << <<1, 1>>, <<1, 2>>, <<1, 3>>, <<2, 3>>, <<3, 3>> >>

\* A grid with loops: 3x3, every cell Open, solved corner to corner.
C4_Witness ==
    /\ width = 3 /\ height = 3 /\ OpenSet = Cells(3, 3)
    /\ origin = <<0, 0>> /\ end = <<2, 2>>
    /\ Len(result) = 5

\* C5 as stated: for every in-bounds origin, whatever its state, a non-empty
\* path returned by solve() starts at the origin, ends at end, moves by unit
\* steps, and every element of it is Open.
C5_WellFormedAnyOrigin ==
    (origin # <<>> /\ InBounds(origin) /\ result # <<>>) =>
        /\ result[1] = origin
        /\ Last(result) = end
        /\ UnitSteps(result)
        /\ \A i \in 1 .. Len(result) : result[i] \in OpenSet

\* C5 amended: the same, but Open is promised for every element after the
\* origin, and for the origin when the origin is Open.
C5_WellFormed ==
    (origin # <<>> /\ InBounds(origin) /\ result # <<>>) =>
        /\ result[1] = origin
        /\ Last(result) = end
        /\ UnitSteps(result)
        /\ \A i \in 2 .. Len(result) : result[i] \in OpenSet
        /\ origin \in OpenSet => \A i \in 1 .. Len(result) : result[i] \in OpenSet

C5_Witness ==
    /\ origin # <<>> /\ InBounds(origin) /\ origin \notin OpenSet
    /\ Len(result) >= 3
    /\ \A i \in 2 .. Len(result) : result[i] \in OpenSet

\* C6: from an Open in-bounds origin solve() returns the empty path exactly
\* when end cannot be reached from the origin through Open cells.
C6_EmptyIffUnreachable ==
    (origin # <<>> /\ origin \in OpenSet) =>
        (result = <<>> <=> end \notin Closure({origin}))

\* Two Open cells separated by walls.
C6_Witness ==
    /\ origin # <<>> /\ origin \in OpenSet /\ end \in OpenSet
    /\ end \notin Closure({origin})
    /\ result = <<>>

\* C7: when generate() has returned on a grid with at least two Open cells,
\* start and end are Open cells and differ.
C7_SpawnPoints ==
    (pc = "returned" /\ Cardinality(OpenSet) >= 2) =>
        /\ start \in OpenSet
        /\ end \in OpenSet
        /\ start # end

C7_Witness ==
    /\ pc = "returned" /\ Cardinality(OpenSet) >= 2
    /\ start \in OpenSet /\ end \in OpenSet /\ start # end

\* A push of the carving loop pushes a cell that was Wall and is now Open; a
\* pop removes a cell that is Open, so no cell is pushed or popped twice.
PushPopOnce ==
    pc = "loop" =>
        /\ Len(stack') > Len(stack) =>
              /\ IsWall(grid, Last(stack'))
              /\ IsPath(grid', Last(stack'))
              /\ Last(stack') \notin SeqRange(stack)
        /\ Len(stack') < Len(stack) =>
              /\ IsPath(grid', Last(stack))
              /\ Last(stack) \notin SeqRange(stack')

\* C8: on every grid of at least 3x3 the carving loop of generate() reaches
\* an empty stack, pushing and popping each cell at most once.
C8_CarvingTerminates ==
    /\ [][PushPopOnce]_vars
    /\ (pc = "loop" /\ width >= 3 /\ height >= 3) ~> (stack = <<>>)

C8_Witness ==
    /\ pc = "loop" /\ stack = <<>>
    /\ width >= 3 /\ height >= 3
    /\ Cardinality(OpenSet) >= 7

\* C9: when generation on a grid of at least 3x3 leaves exactly one Open
\* cell, generate() returns with start = end = that cell.
C9_SingleCellReturns ==
    (pc = "while" /\ width >= 3 /\ height >= 3 /\ Len(OpenCells(grid)) = 1) ~>
        (pc = "returned" /\ start = end /\ OpenSet = {start})

\* C10: generate() on a grid with width < 3 or height < 3 ends in a fatal
\* error without generating: no cell is opened, no start or end selected.
C10_SmallGridRefused ==
    (width < 3 \/ height < 3) =>
        /\ pc \in {"new", "threw"}
        /\ \A c \in DOMAIN grid : grid[c] = Wall
        /\ start = <<0, 0>>
        /\ end = <<width - 1, height - 1>>

\* C11: solve() with an origin outside the grid ends in an error and never
\* returns a path (origin # <<>> holds exactly when a solve() call has
\* returned, with result what it returned).
C11_OutOfBoundsIsError ==
    origin # <<>> => InBounds(origin)

\* C12: a solve() call, whatever its result, leaves every grid cell, width,
\* height, start and end unchanged.
C12_SolveReadOnly ==
    [][(origin = <<>> /\ origin' # <<>>) =>
         /\ grid' = grid
         /\ width' = width /\ height' = height
         /\ start' = start /\ end' = end]_vars

C12_Witness ==
    /\ pc = "returned" /\ origin = start /\ start # end
    /\ result # <<>> /\ Last(result) = end

\* C13: when the steps of two solve() invocations with different origins are
\* interleaved on the same grid, each invocation returns exactly the path
\* solve() returns from its origin when run alone.
C13_IndependentRuns ==
    \A i \in DOMAIN runs :
        runs[i].done => runs[i].result = solve(grid, end, runs[i].origin)

\* Both invocations have returned paths that run through a common cell.
C13_Witness ==
    /\ Len(runs) = 2
    /\ runs[1].done /\ runs[2].done
    /\ Len(runs[1].result) >= 3 /\ Len(runs[2].result) >= 3
    /\ runs[1].result[2] = runs[2].result[2]

C19_LatticeCovered ==
    (pc = "loop" /\ stack = <<>> /\ width >= 3 /\ height >= 3) =>
        \A c \in Cells(width, height) :
            (c[1] % 2 = 1 /\ c[2] % 2 = 1 /\ c[1] < width - 1 /\ c[2] < height - 1)
                => IsPath(grid, c)

\* The cells whose state differs between the two states of a step.
Changed ==
    {c \in (DOMAIN grid) \cup (DOMAIN grid') :
        c \notin DOMAIN grid \/ c \notin DOMAIN grid' \/ grid'[c] # grid[c]}

\* The effect of one iteration of the carving loop.
CarveEffect ==
    (pc = "loop" /\ stack # <<>> /\ stack' # stack) =>
        LET current == Last(stack)
        IN \/ /\ Len(stack') = Len(stack) - 1
              /\ stack' = SubSeq(stack, 1, Len(stack) - 1)
              /\ Changed = {}
           \/ \E d \in {<<0, -1>>, <<1, 0>>, <<0, 1>>, <<-1, 0>>} :
                 LET mid == <<current[1] + d[1], current[2] + d[2]>>
                     next == <<current[1] + 2 * d[1], current[2] + 2 * d[2]>>
                 IN /\ stack' = Append(stack, next)
                    /\ Changed = {mid, next}
                    /\ IsWall(grid, mid) /\ IsWall(grid, next)
                    /\ IsPath(grid', mid) /\ IsPath(grid', next)

\* C20: an iteration of the carving loop that finds an unvisited neighbour
\* opens exactly the neighbour at offset 2 and the cell midway, both Wall
\* before, and pushes the neighbour; an iteration that finds none pops the
\* stack and changes no cell.
C20_CarveEffect == [][CarveEffect]_vars

\* Pushes and at least one pop have happened in the carving loop.
C20_Witness ==
    /\ pc = "loop" /\ stack # <<>>
    /\ Cardinality(OpenSet) >= 5
    /\ Cardinality(OpenSet) >= 2 * Len(stack) + 1

C17_BoundsSafe ==
    (width >= 3 /\ height >= 3 /\ (origin # <<>> => InBounds(origin))) =>
        /\ touched \subseteq Cells(width, height)
        /\ DOMAIN grid = Cells(width, height)

\* isValidMove has just accepted a step onto a cell it read.
C17_Witness ==
    /\ pc = "playing" /\ player.isMoving
    /\ player.gridPos \in touched
    /\ player.worldPos # player.targetPos

\* C18: a cell that is Open is Open in every later state, through the steps
\* of generate(), solve() calls and player moves.
C18_MonotoneOpening ==
    [][\A c \in DOMAIN grid :
          grid[c] = Path => (c \in DOMAIN grid' /\ grid'[c] = Path)]_vars

\* Generation, a solve() call and a completed player move lie behind.
C18_Witness ==
    /\ pc = "playing" /\ ~player.isMoving
    /\ player.gridPos # start
    /\ markers # <<>>
    /\ Cardinality(OpenSet) >= 3

\* C21: on a generated maze whose start is Open the player's gridPos is in
\* bounds and on an Open cell after any keys, perspective switches, rotations
\* and update() calls, and every accepted move changes gridPos by one unit
\* along one axis.
C21_OnPlayfield ==
    /\ []((pc \in {"playing", "won"} /\ IsPath(grid, start)) =>
            /\ InBounds(player.gridPos)
            /\ IsPath(grid, player.gridPos))
    /\ [][(pc = "playing" /\ player'.gridPos # player.gridPos) =>
            Abs(player'.gridPos[1] - player.gridPos[1])
              + Abs(player'.gridPos[2] - player.gridPos[2]) = 1]_vars

\* A move has been accepted in first person after a rotation.
C21_Witness ==
    /\ pc = "playing" /\ player.isMoving
    /\ perspective = "firstPerson"
    /\ player.facing # <<0, 1>>
    /\ player.gridPos # start
    /\ IsPath(grid, start)

\* C22: after tryMove has accepted a step, update() calls with frame times
\* up to the cap eventually bring the player to rest with worldPos equal to
\* targetPos.
C22_MoveCompletes ==
    (pc = "playing" /\ player.isMoving) ~>
        (~player.isMoving /\ player.worldPos = player.targetPos)

\* C23: the win is triggered only with gridPos equal to maze.end; the player
\* is never at rest on end after a move without the win having been triggered
\* in the update that completed the move; and no move is accepted between
\* stepping onto end and the win check.
C23_WinDetection ==
    /\ [](pc = "won" => player.gridPos = end)
    /\ []((pc = "playing" /\ ~player.isMoving /\ player.gridPos = end) =>
            (player.gridPos = start /\ player.worldPos = World(start)))
    /\ [][(pc = "playing" /\ player.gridPos = end /\ start # end) =>
            /\ player'.gridPos = end
            /\ (~player'.isMoving => pc' = "won")]_vars

\* The player has walked from start to end and the win was triggered.
C23_Witness ==
    /\ pc = "won"
    /\ player.gridPos = end /\ start # end
    /\ ~player.isMoving /\ player.worldPos = player.targetPos

====
